---- MODULE Spec2Model ----
(***************************************************************************)
(* Model of the chat orchestration of aws-ai: ChatService (createSession,  *)
(* getSession, deleteSession, sendMessage, getMessages) running as         *)
(* independent, concurrently scheduled invocations over the DynamoDB       *)
(* tables chat-sessions and chat-messages, the OpenSearch index            *)
(* chat-context and the Bedrock model.  Every await of the service is one  *)
(* step of a request; the code between two awaits runs with that step.     *)
(***************************************************************************)
EXTENDS Integers, Sequences, FiniteSets, TLC

\* ---------------------------------------------------------------- bounds
MaxTime == 1        \* the millisecond clock runs over 0..MaxTime
MaxFaults == 1      \* calls of a managed service that throw in one behaviour

Procs == {"p1", "p2"}                   \* concurrent Lambda invocations
Users == {"u1", "u2"}                   \* authorizer userId values
Titles == {"Intake"}                    \* createSession titles
Texts == {"m1", "m2"}                   \* user message texts
Replies == {"r1"}                       \* model reply texts
SessionIdPool == {"sess_A", "sess_B"}   \* outcomes of generateId("sess")
MessageIdPool == {"msg_A", "msg_B"}     \* outcomes of generateId("msg")
Docs == {"doc_001"}                     \* knowledge-base documents

Undefined == "undefined"

VARIABLES
    now,            \* the wall clock read by new Date()
    chatSessions,   \* table chat-sessions: a set of items, key id
    chatMessages,   \* table chat-messages: a set of items, key (sessionId, timestamp)
    chatContext,    \* index chat-context: a set of documents, key id
    req,            \* req[p]: the invocation p is running, its position and locals
    faults,         \* managed-service calls that have thrown so far
    documents       \* table documents: a set of items, key id

vars == <<now, chatSessions, chatMessages, chatContext, req, faults, documents>>

TheOne(S) == CHOOSE x \in S : TRUE

\* ---------------------------------------------------------------- errors
\* NotFoundError(resource, identifier): the message and details quote the
\* identifier the caller passed.
NotFoundError(resource, identifier) ==
    [name |-> "AppError", code |-> "NOT_FOUND", statusCode |-> 404,
     message |-> <<resource, "with identifier", identifier, "not found">>,
     details |-> <<resource, identifier>>]

\* new AppError("FORBIDDEN", "Access denied to this session", 403)
ForbiddenSession ==
    [name |-> "AppError", code |-> "FORBIDDEN", statusCode |-> 403,
     message |-> <<"Access denied to this session">>, details |-> <<>>]

\* new AppError("INVALID_SESSION", "Cannot send message to inactive session", 400)
InvalidSession ==
    [name |-> "AppError", code |-> "INVALID_SESSION", statusCode |-> 400,
     message |-> <<"Cannot send message to inactive session">>, details |-> <<>>]

\* The adapters rethrow every failure as a plain Error whose message names
\* the failed call: it carries no code and no status.
PlainError(call, target) ==
    [name |-> "Error", message |-> <<"Failed to", call, target>>]

\* invokeChat rethrows every failure as a plain Error of its own wording.
BedrockChatError ==
    [name |-> "Error", message |-> <<"Bedrock chat invocation failed">>]

\* analyzeViolations rethrows a failure of JSON.parse as a plain Error.
ParseError ==
    [name |-> "Error", message |-> <<"Failed to parse violation analysis response">>]

\* Reading a property of null or undefined.
TypeError == [name |-> "TypeError", message |-> <<"Cannot read properties">>]

\* ---------------------------------------------------------------- DynamoDB
\* Key schema of the two tables.
SameKey(tableName, a, b) ==
    IF tableName = "chat-messages"
    THEN a.sessionId = b.sessionId /\ a.timestamp = b.timestamp
    ELSE a.id = b.id

\* put: PutCommand without a condition expression replaces the item that
\* has the same key.
put(tableName, table, item) ==
    {x \in table : ~SameKey(tableName, x, item)} \cup {item}

\* get: the item with that id, as a set of zero or one items.
get(table, id) == {x \in table : x.id = id}

\* update: UpdateCommand with a SET expression; the assigned attributes
\* replace the stored ones, an absent item is created from key and attributes.
update(table, id, attrs) ==
    IF get(table, id) # {}
    THEN {IF x.id = id THEN attrs @@ x ELSE x : x \in table}
    ELSE table \cup {attrs @@ [id |-> id]}

getChatSession(sessionId) == get(chatSessions, sessionId)

RECURSIVE SortAscending(_)
\* The items of one partition in ascending order of the sort key.
SortAscending(S) ==
    IF S = {} THEN <<>>
    ELSE LET first == CHOOSE x \in S : \A y \in S : x.timestamp <= y.timestamp
         IN  <<first>> \o SortAscending(S \ {first})

Take(s, n) == SubSeq(s, 1, IF Len(s) < n THEN Len(s) ELSE n)

\* getChatMessages with ScanIndexForward false: newest first.
getChatMessages_Descending(sessionId, limit) ==
    LET all == SortAscending({m \in chatMessages : m.sessionId = sessionId})
        newestFirst == [i \in 1..Len(all) |-> all[Len(all) + 1 - i]]
    IN  IF limit = 0 THEN newestFirst ELSE Take(newestFirst, limit)

\* query of chat-messages by sessionId, ScanIndexForward true; a limit of 0
\* stands for no Limit.
getChatMessages(sessionId, limit) ==
    LET all == SortAscending({m \in chatMessages : m.sessionId = sessionId})
    IN  IF limit = 0 THEN all ELSE Take(all, limit)

\* ---------------------------------------------------------------- requests
Idle ==
    [op |-> "none", pc |-> "idle", sessionId |-> Undefined, userId |-> Undefined,
     title |-> Undefined, message |-> Undefined,
     session |-> {}, stamp |-> 0,
     userMessage |-> {}, assistantMessage |-> {},
     history |-> <<>>, searchResults |-> <<>>, ragFailed |-> FALSE,
     sent |-> <<>>, indexFailed |-> FALSE,
     error |-> {}, returned |-> {}, items |-> <<>>]

\* The tables outlive the invocations: a session created, and possibly
\* deleted, by an earlier request may be there from the start.
EarlierSessions ==
    LET s == [id |-> "sess_A", userId |-> "u1", title |-> "Intake",
              createdAt |-> 0, updatedAt |-> 0, isActive |-> TRUE]
    IN  {{}, {s}, {[s EXCEPT !.isActive = FALSE]}}

Init ==
    /\ now = 0
    /\ chatSessions \in EarlierSessions
    /\ chatMessages = {}
    /\ chatContext = {}
    /\ req = [p \in Procs |-> Idle]
    /\ faults = 0
    /\ documents = {}

\* new Date(): the clock never runs backwards, and two reads may fall in the
\* same millisecond.  now is the value of the latest read.
ReadClock(t) == t \in now..MaxTime /\ now' = t

\* A call of a managed service (store, search index, model) throws.
Throws == faults < MaxFaults /\ faults' = faults + 1

\* The call answers.
Answers == UNCHANGED faults

\* Each invocation handles one request.
CanStart(p) == req[p].pc = "idle"

\* ---------------------------------------------------------------- ids
\* The identifiers some record or running request holds.
IdsInUse(prefix) ==
    IF prefix = "sess"
    THEN {x.id : x \in chatSessions}
         \cup {req[p].sessionId : p \in {q \in Procs : req[q].op = "createSession"
                                                       /\ req[q].pc = "putSession"}}
    ELSE {x.id : x \in chatMessages \cup chatContext}
         \cup UNION {{x.id : x \in req[p].userMessage \cup req[p].assistantMessage}
                        : p \in Procs}

\* The service never looks into an identifier, a user name or a text: up to
\* renaming, a new value is one of those in use or one that is not.
UpToRenaming(pool, used) ==
    LET unused == pool \ used
    IN  (pool \cap used) \cup (IF unused = {} THEN {} ELSE {TheOne(unused)})

\* generateId(prefix): 8 characters drawn with Math.random(); nothing keeps
\* an outcome from repeating.
generateId(prefix) ==
    UpToRenaming(IF prefix = "sess" THEN SessionIdPool ELSE MessageIdPool,
                 IdsInUse(prefix))

\* The userId, sessionId and message values a request may carry.
UserIds == UpToRenaming(Users, {x.userId : x \in chatSessions}
                               \cup {req[p].userId : p \in Procs})
SessionIds == UpToRenaming(SessionIdPool, IdsInUse("sess"))
Messages == UpToRenaming(Texts, {x.content : x \in chatMessages \cup chatContext}
                                \cup {req[p].message : p \in Procs})

\* A request that has ended keeps its inputs, the session it looked up and its
\* outcome; its other locals are gone.
Ended(r) ==
    [r EXCEPT !.pc = "done", !.stamp = 0, !.userMessage = {},
              !.assistantMessage = {}, !.history = <<>>, !.searchResults = <<>>,
              !.sent = <<>>]

Throw(p, errs) == [req EXCEPT ![p] = Ended([req[p] EXCEPT !.error = errs])]

Fail(p, err) == Throw(p, {err})

\* ---------------------------------------------------------------- createSession
\* NewSession with the session created inactive.
NewSession_Inactive(sessionId, userId, title, t) ==
    [id |-> sessionId, userId |-> userId, title |-> title,
     createdAt |-> t, updatedAt |-> t, isActive |-> FALSE]

\* The item createSession builds: both timestamps are the one clock reading.
NewSession(sessionId, userId, title, t) ==
    [id |-> sessionId, userId |-> userId, title |-> title,
     createdAt |-> t, updatedAt |-> t, isActive |-> TRUE]

\* createSession up to its await: mint the id, read the clock, build the item.
createSession(p) ==
    /\ CanStart(p)
    /\ \E u \in UserIds, title \in Titles, sid \in generateId("sess"), t \in 0..MaxTime :
         /\ ReadClock(t)
         /\ req' = [req EXCEPT ![p] = [Idle EXCEPT !.op = "createSession",
                     !.pc = "putSession", !.userId = u, !.title = title,
                     !.sessionId = sid,
                     !.session = {NewSession(sid, u, title, t)}]]
    /\ UNCHANGED <<chatSessions, chatMessages, chatContext, faults, documents>>

\* await put("chat-sessions", session): the write lands, or it throws.
createSessionPut(p) ==
    /\ req[p].op = "createSession" /\ req[p].pc = "putSession"
    /\ \/ /\ Answers
          /\ chatSessions' = put("chat-sessions", chatSessions, TheOne(req[p].session))
          /\ req' = [req EXCEPT ![p] = Ended([req[p] EXCEPT !.returned = req[p].session])]
       \/ /\ Throws
          /\ req' = Fail(p, PlainError("put item in", "chat-sessions"))
          /\ UNCHANGED chatSessions
    /\ UNCHANGED <<now, chatMessages, chatContext, documents>>

\* ---------------------------------------------------------------- getSession
\* getSessionError without the ownership test.
getSessionError_NoOwnerTest(found, sessionId, userId) ==
    IF found = {} THEN {NotFoundError("Chat session", sessionId)} ELSE {}

\* The checks of getSession on the outcome of the lookup: the error thrown,
\* as a set of zero or one errors.
getSessionError(found, sessionId, userId) ==
    IF found = {} THEN {NotFoundError("Chat session", sessionId)}
    ELSE IF TheOne(found).userId # userId THEN {ForbiddenSession}
    ELSE {}

\* getSession as a call of its own: the lookup, then the checks.
getSession(p) ==
    /\ CanStart(p)
    /\ \E u \in UserIds, sid \in SessionIds :
         LET found == getChatSession(sid)
             err == getSessionError(found, sid, u)
             r == [Idle EXCEPT !.op = "getSession", !.pc = "done",
                               !.userId = u, !.sessionId = sid]
         IN  \/ /\ Answers
                /\ req' = [req EXCEPT ![p] =
                     IF err # {} THEN [r EXCEPT !.error = err]
                     ELSE [r EXCEPT !.returned = found]]
             \/ /\ Throws
                /\ req' = [req EXCEPT ![p] =
                     [r EXCEPT !.error = {PlainError("get item from", "chat-sessions")}]]
    /\ UNCHANGED <<now, chatSessions, chatMessages, chatContext, documents>>

\* The lookup that opens deleteSession, sendMessage and getMessages.
StartWithLookup(p, op, extra) ==
    /\ CanStart(p)
    /\ \E u \in UserIds, sid \in SessionIds :
         LET r == [extra EXCEPT !.op = op, !.userId = u, !.sessionId = sid]
         IN  \/ /\ Answers
                /\ req' = [req EXCEPT ![p] =
                     [r EXCEPT !.pc = "gotSession", !.session = getChatSession(sid)]]
             \/ /\ Throws
                /\ req' = [req EXCEPT ![p] =
                     [r EXCEPT !.pc = "done",
                               !.error = {PlainError("get item from", "chat-sessions")}]]
    /\ UNCHANGED <<now, chatSessions, chatMessages, chatContext, documents>>

\* ---------------------------------------------------------------- getUserSessions
\* The orders in which a query may return the items of one partition of an
\* index that has no sort key: ScanIndexForward orders by the sort key alone,
\* so with none every order of the items is an outcome.
QueryOrders(S) ==
    {items \in [1..Cardinality(S) -> S] : {items[i] : i \in 1..Cardinality(S)} = S}

\* query of chat-sessions on user-sessions-index (HASH userId, no RANGE key)
\* with sortAscending false.
getUserChatSessions(userId) ==
    QueryOrders({x \in chatSessions : x.userId = userId})

\* getUserSessions: the query, returned as it is.
getUserSessions(p) ==
    /\ CanStart(p)
    /\ \E u \in UserIds :
         LET r == [Idle EXCEPT !.op = "getUserSessions", !.pc = "done", !.userId = u]
         IN  \/ /\ Answers
                /\ \E items \in getUserChatSessions(u) :
                     req' = [req EXCEPT ![p] = [r EXCEPT !.items = items]]
             \/ /\ Throws
                /\ req' = [req EXCEPT ![p] =
                     [r EXCEPT !.error = {PlainError("query", "chat-sessions")}]]
    /\ UNCHANGED <<now, chatSessions, chatMessages, chatContext, documents>>

\* ---------------------------------------------------------------- deleteSession
deleteSession(p) == StartWithLookup(p, "deleteSession", Idle)

\* deleteSessionError that also refuses a session that is already inactive.
deleteSessionError_RefusesInactive(found, sessionId, userId) ==
    LET err == getSessionError(found, sessionId, userId)
    IN  IF err # {} THEN err
        ELSE IF ~TheOne(found).isActive THEN {InvalidSession}
        ELSE {}

\* The checks of deleteSession on the looked-up session: those of getSession
\* and no other.
deleteSessionError(found, sessionId, userId) ==
    getSessionError(found, sessionId, userId)

\* The attributes deleteSession assigns.
DeactivateAttrs(updatedAt) == [isActive |-> FALSE, updatedAt |-> updatedAt]

\* After the ownership check: read the clock and issue the update.
deleteSessionCheck(p) ==
    /\ req[p].op = "deleteSession" /\ req[p].pc = "gotSession"
    /\ LET err == deleteSessionError(req[p].session, req[p].sessionId, req[p].userId)
       IN  \/ /\ err # {}
              /\ req' = Throw(p, err)
              /\ UNCHANGED now
           \/ /\ err = {}
              /\ \E t \in 0..MaxTime :
                   /\ ReadClock(t)
                   /\ req' = [req EXCEPT ![p].pc = "updateSession", ![p].stamp = t]
    /\ UNCHANGED <<chatSessions, chatMessages, chatContext, faults, documents>>

\* await update("chat-sessions", {id}, SET isActive = false, updatedAt)
deleteSessionUpdate(p) ==
    /\ req[p].op = "deleteSession" /\ req[p].pc = "updateSession"
    /\ \/ /\ Answers
          /\ chatSessions' = update(chatSessions, req[p].sessionId,
                                    DeactivateAttrs(req[p].stamp))
          /\ req' = [req EXCEPT ![p] = Ended(req[p])]
       \/ /\ Throws
          /\ req' = Fail(p, PlainError("update item in", "chat-sessions"))
          /\ UNCHANGED chatSessions
    /\ UNCHANGED <<now, chatMessages, chatContext, documents>>

\* ---------------------------------------------------------------- getMessages
getMessages(p) == StartWithLookup(p, "getMessages", Idle)

\* After the ownership check: query the messages of the session.
getMessagesQuery(p) ==
    /\ req[p].op = "getMessages" /\ req[p].pc = "gotSession"
    /\ LET err == getSessionError(req[p].session, req[p].sessionId, req[p].userId)
       IN  \/ /\ Answers
              /\ req' = IF err # {} THEN Throw(p, err)
                        ELSE [req EXCEPT ![p] = Ended([req[p] EXCEPT
                                  !.items = getChatMessages(req[p].sessionId, 0)])]
           \/ /\ err = {}
              /\ Throws
              /\ req' = Fail(p, PlainError("query", "chat-messages"))
    /\ UNCHANGED <<now, chatSessions, chatMessages, chatContext, documents>>

\* ---------------------------------------------------------------- sendMessage
HistoryLimit == 10      \* getChatHistory(sessionId, 10)
RecentHistory == 8      \* history.slice(-8)

Last(s, n) == SubSeq(s, IF Len(s) > n THEN Len(s) - n + 1 ELSE 1, Len(s))

\* getChatHistory: query with Limit limit * 2, then slice(-limit).
getChatHistory(sessionId, limit) ==
    Last(getChatMessages(sessionId, limit * 2), limit)

\* An outcome of invokeChat: the reply text and the token usage.
BedrockResponses ==
    {[content |-> c, usage |-> [inputTokens |-> 12, outputTokens |-> 7]] : c \in Replies}

\* The hits hybridSearch may return.
SearchHits == {<<>>} \cup {<<d>> : d \in Docs}

\* The source references derived from the retrieval hits.
Sources(searchResults) ==
    [i \in 1..Len(searchResults) |->
        [id |-> searchResults[i], title |-> "Document", source |-> "knowledge_base"]]

\* prepareMessagesForBedrock without history.slice(-8).
prepareMessagesForBedrock_WholeHistory(history, currentMessage, searchResults) ==
    (IF Len(searchResults) > 0
     THEN <<[role |-> "user", content |-> <<"Context information:", searchResults>>],
            [role |-> "assistant", content |-> <<"I understand.">>]>>
     ELSE <<>>)
    \o [i \in 1..Len(history) |-> [role |-> history[i].role, content |-> history[i].content]]
    \o <<[role |-> "user", content |-> currentMessage]>>

\* prepareMessagesForBedrock: context turn and acknowledgment when there are
\* hits, the last 8 history messages, the current message.
prepareMessagesForBedrock(history, currentMessage, searchResults) ==
    LET recent == Last(history, RecentHistory)
    IN  (IF Len(searchResults) > 0
         THEN <<[role |-> "user", content |-> <<"Context information:", searchResults>>],
                [role |-> "assistant", content |-> <<"I understand.">>]>>
         ELSE <<>>)
        \o [i \in 1..Len(recent) |-> [role |-> recent[i].role, content |-> recent[i].content]]
        \o <<[role |-> "user", content |-> currentMessage]>>

sendMessage(p) ==
    \E m \in Messages : StartWithLookup(p, "sendMessage", [Idle EXCEPT !.message = m])

\* sendMessageError without the isActive test.
sendMessageError_NoActiveTest(found, sessionId, userId) ==
    getSessionError(found, sessionId, userId)

\* The preconditions of sendMessage on the looked-up session: the error
\* thrown, as a set of zero or one errors.
sendMessageError(found, sessionId, userId) ==
    LET err == getSessionError(found, sessionId, userId)
    IN  IF err # {} THEN err
        ELSE IF ~TheOne(found).isActive THEN {InvalidSession}
        ELSE {}

\* After the lookup: the checks, then mint the id of the user message and
\* stamp it with the clock.
sendMessageCheck(p) ==
    /\ req[p].op = "sendMessage" /\ req[p].pc = "gotSession"
    /\ LET err == sendMessageError(req[p].session, req[p].sessionId, req[p].userId)
       IN  \/ /\ err # {}
              /\ req' = Throw(p, err)
              /\ UNCHANGED now
           \/ /\ err = {}
              /\ \E mid \in generateId("msg"), t \in 0..MaxTime :
                   /\ ReadClock(t)
                   /\ req' = [req EXCEPT ![p].pc = "putUser",
                       ![p].userMessage = {[id |-> mid, sessionId |-> req[p].sessionId,
                                            role |-> "user", content |-> req[p].message,
                                            timestamp |-> t]}]
    /\ UNCHANGED <<chatSessions, chatMessages, chatContext, faults, documents>>

\* await put("chat-messages", userMessage), outside the try block.
sendMessagePutUser(p) ==
    /\ req[p].op = "sendMessage" /\ req[p].pc = "putUser"
    /\ \/ /\ Answers
          /\ chatMessages' = put("chat-messages", chatMessages, TheOne(req[p].userMessage))
          /\ req' = [req EXCEPT ![p].pc = "getHistory"]
       \/ /\ Throws
          /\ req' = Fail(p, PlainError("put item in", "chat-messages"))
          /\ UNCHANGED chatMessages
    /\ UNCHANGED <<now, chatSessions, chatContext, documents>>

\* performRAGSearch without the catch block: the throw leaves the function.
performRAGSearch_NoCatch ==
    {[hits |-> h, failed |-> FALSE, thrown |-> {}] : h \in SearchHits}
    \cup {[hits |-> <<>>, failed |-> TRUE, thrown |-> {PlainError("call", call)}]
             : call \in {"generateEmbedding", "hybridSearch"}}

\* performRAGSearch: embedding, then hybrid search; either throw is caught
\* and gives no hits.  The outcomes: the hits returned, whether a call threw,
\* and the errors that leave the function.
performRAGSearch ==
    {[hits |-> h, failed |-> FALSE, thrown |-> {}] : h \in SearchHits}
    \cup {[hits |-> <<>>, failed |-> TRUE, thrown |-> {}]
             : call \in {"generateEmbedding", "hybridSearch"}}

\* await getChatHistory(sessionId, 10), whose throw leaves through the catch
\* block, which rethrows; then await performRAGSearch(message), which touches
\* neither table.
sendMessageContext(p) ==
    /\ req[p].op = "sendMessage" /\ req[p].pc = "getHistory"
    /\ \/ \E rag \in performRAGSearch :
            /\ IF rag.failed THEN Throws ELSE Answers
            /\ req' = IF rag.thrown # {}
                      THEN [req EXCEPT ![p] = Ended([req[p] EXCEPT
                              !.ragFailed = rag.failed, !.error = rag.thrown])]
                      ELSE [req EXCEPT ![p].pc = "invoke",
                              ![p].history = getChatHistory(req[p].sessionId, HistoryLimit),
                              ![p].searchResults = rag.hits, ![p].ragFailed = rag.failed]
       \/ /\ Throws
          /\ req' = Fail(p, PlainError("query", "chat-messages"))
    /\ UNCHANGED <<now, chatSessions, chatMessages, chatContext, documents>>

\* sendMessageInvoke that answers a failure of the model with an apology as
\* the assistant message and goes on.
sendMessageInvoke_FallbackReply(p) ==
    /\ req[p].op = "sendMessage" /\ req[p].pc = "invoke"
    /\ \E r \in BedrockResponses, mid \in generateId("msg"), t \in 0..MaxTime :
          /\ Answers \/ Throws
          /\ ReadClock(t)
          /\ req' = [req EXCEPT ![p].pc = "putAssistant",
              ![p].sent = prepareMessagesForBedrock(req[p].history, req[p].message,
                                                    req[p].searchResults),
              ![p].history = <<>>,
              ![p].assistantMessage =
                  {[id |-> mid, sessionId |-> req[p].sessionId,
                    role |-> "assistant", content |-> r.content,
                    timestamp |-> t,
                    metadata |-> [tokensUsed |-> r.usage.inputTokens
                                                 + r.usage.outputTokens,
                                  sources |-> Sources(req[p].searchResults)]]}]
    /\ UNCHANGED <<chatSessions, chatMessages, chatContext, documents>>

\* await invokeChat(messages); on a reply, mint the id of the assistant
\* message and stamp it with the clock.
sendMessageInvoke(p) ==
    /\ req[p].op = "sendMessage" /\ req[p].pc = "invoke"
    /\ LET messages == prepareMessagesForBedrock(req[p].history, req[p].message,
                                                req[p].searchResults)
       IN  \/ \E r \in BedrockResponses, mid \in generateId("msg"), t \in 0..MaxTime :
                /\ Answers
                /\ ReadClock(t)
                /\ req' = [req EXCEPT ![p].pc = "putAssistant", ![p].sent = messages,
                    ![p].history = <<>>,
                    ![p].assistantMessage =
                        {[id |-> mid, sessionId |-> req[p].sessionId,
                          role |-> "assistant", content |-> r.content,
                          timestamp |-> t,
                          metadata |-> [tokensUsed |-> r.usage.inputTokens
                                                       + r.usage.outputTokens,
                                        sources |-> Sources(req[p].searchResults)]]}]
           \/ /\ Throws
              /\ req' = Fail(p, BedrockChatError)
              /\ UNCHANGED now
    /\ UNCHANGED <<chatSessions, chatMessages, chatContext, documents>>

\* await put("chat-messages", assistantMessage)
sendMessagePutAssistant(p) ==
    /\ req[p].op = "sendMessage" /\ req[p].pc = "putAssistant"
    /\ \/ /\ Answers
          /\ chatMessages' = put("chat-messages", chatMessages,
                                 TheOne(req[p].assistantMessage))
          /\ req' = [req EXCEPT ![p].pc = "updateSession", ![p].sent = <<>>,
                                 ![p].searchResults = <<>>]
       \/ /\ Throws
          /\ req' = Fail(p, PlainError("put item in", "chat-messages"))
          /\ UNCHANGED chatMessages
    /\ UNCHANGED <<now, chatSessions, chatContext, documents>>

\* The attribute sendMessage assigns to the session.
TouchAttrs(updatedAt) == [updatedAt |-> updatedAt]

\* ChatResponse that leaves the token usage out.
ChatResponse_NoUsage(p) ==
    LET a == TheOne(req[p].assistantMessage)
    IN  [message |-> a.content, sessionId |-> req[p].sessionId,
         sources |-> a.metadata.sources, metadata |-> [tokensUsed |-> 0]]

\* The reply sendMessage returns: the reply text, the session, the sources
\* and the usage metadata of the assistant message.
ChatResponse(p) ==
    LET a == TheOne(req[p].assistantMessage)
    IN  [message |-> a.content, sessionId |-> req[p].sessionId,
         sources |-> a.metadata.sources,
         metadata |-> [tokensUsed |-> a.metadata.tokensUsed]]

\* IndexGaveUp with a catch block that rethrows.
IndexGaveUp_Rethrows(p) ==
    [req EXCEPT ![p] = Ended([req[p] EXCEPT !.indexFailed = TRUE,
                       !.error = {PlainError("index document in", "chat-context")}])]

\* indexConversation swallows every throw; sendMessage then returns the reply.
IndexGaveUp(p) ==
    [req EXCEPT ![p] = Ended([req[p] EXCEPT !.indexFailed = TRUE,
                                            !.returned = {ChatResponse(p)}])]

\* sendMessageUpdateSession that sets updatedAt to the timestamp of the user
\* message.
sendMessageUpdateSession_UserTimestamp(p) ==
    /\ req[p].op = "sendMessage" /\ req[p].pc = "updateSession"
    /\ \/ /\ chatSessions' = update(chatSessions, req[p].sessionId,
                                    TouchAttrs(TheOne(req[p].userMessage).timestamp))
          /\ \/ Answers /\ req' = [req EXCEPT ![p].pc = "indexUser"]
             \/ Throws /\ req' = IndexGaveUp(p)
       \/ /\ Throws
          /\ req' = Fail(p, PlainError("update item in", "chat-sessions"))
          /\ UNCHANGED chatSessions
    /\ UNCHANGED <<now, chatMessages, chatContext, documents>>

\* await update("chat-sessions", {id}, SET updatedAt = assistantTimestamp);
\* then indexConversation begins with the two generateEmbedding calls, which
\* touch no table and no index.
sendMessageUpdateSession(p) ==
    /\ req[p].op = "sendMessage" /\ req[p].pc = "updateSession"
    /\ \/ /\ chatSessions' = update(chatSessions, req[p].sessionId,
                                    TouchAttrs(TheOne(req[p].assistantMessage).timestamp))
          /\ \/ Answers /\ req' = [req EXCEPT ![p].pc = "indexUser"]
             \/ Throws /\ req' = IndexGaveUp(p)
       \/ /\ Throws
          /\ req' = Fail(p, PlainError("update item in", "chat-sessions"))
          /\ UNCHANGED chatSessions
    /\ UNCHANGED <<now, chatMessages, chatContext, documents>>

\* indexDocument: the document replaces the one indexed under the same id.
indexDocument(index, doc) == {d \in index : d.id # doc.id} \cup {doc}

\* indexConversation: index the user message.
indexConversationUser(p) ==
    /\ req[p].op = "sendMessage" /\ req[p].pc = "indexUser"
    /\ \/ /\ Answers
          /\ chatContext' = indexDocument(chatContext, TheOne(req[p].userMessage))
          /\ req' = [req EXCEPT ![p].pc = "indexAssistant"]
       \/ /\ Throws
          /\ req' = IndexGaveUp(p)
          /\ UNCHANGED chatContext
    /\ UNCHANGED <<now, chatSessions, chatMessages, documents>>

\* indexConversation: index the assistant message; sendMessage returns.
indexConversationAssistant(p) ==
    /\ req[p].op = "sendMessage" /\ req[p].pc = "indexAssistant"
    /\ \/ /\ Answers
          /\ chatContext' = indexDocument(chatContext, TheOne(req[p].assistantMessage))
          /\ req' = [req EXCEPT ![p] = Ended([req[p] EXCEPT
                                           !.returned = {ChatResponse(p)}])]
       \/ /\ Throws
          /\ req' = IndexGaveUp(p)
          /\ UNCHANGED chatContext
    /\ UNCHANGED <<now, chatSessions, chatMessages, documents>>

Next ==
    \/ \E p \in Procs : createSession(p)
    \/ \E p \in Procs : createSessionPut(p)
    \/ \E p \in Procs : getSession(p)
    \/ \E p \in Procs : getUserSessions(p)
    \/ \E p \in Procs : deleteSession(p)
    \/ \E p \in Procs : deleteSessionCheck(p)
    \/ \E p \in Procs : deleteSessionUpdate(p)
    \/ \E p \in Procs : getMessages(p)
    \/ \E p \in Procs : getMessagesQuery(p)
    \/ \E p \in Procs : sendMessage(p)
    \/ \E p \in Procs : sendMessageCheck(p)
    \/ \E p \in Procs : sendMessagePutUser(p)
    \/ \E p \in Procs : sendMessageContext(p)
    \/ \E p \in Procs : sendMessageInvoke(p)
    \/ \E p \in Procs : sendMessagePutAssistant(p)
    \/ \E p \in Procs : sendMessageUpdateSession(p)
    \/ \E p \in Procs : indexConversationUser(p)
    \/ \E p \in Procs : indexConversationAssistant(p)

Spec == Init /\ [][Next]_vars

\* ================================================================ long sessions
\* One sendMessage call on a session that holds up to MaxStored messages of
\* earlier exchanges, written before the clock of the model starts.
MaxStored == 21

\* The n messages of the earlier exchanges, user and assistant in turn.
StoredMessages(n) ==
    {[id |-> "msg_" \o ToString(i), sessionId |-> "sess_A",
      role |-> IF i % 2 = 1 THEN "user" ELSE "assistant",
      content |-> "old_" \o ToString(i), timestamp |-> i - n - 1] : i \in 1..n}

HistoryInit ==
    /\ now = 0
    /\ chatSessions = {[id |-> "sess_A", userId |-> "u1", title |-> "Intake",
                        createdAt |-> 0, updatedAt |-> 0, isActive |-> TRUE]}
    /\ \E n \in 0..MaxStored : chatMessages = StoredMessages(n)
    /\ chatContext = {}
    /\ req = [p \in Procs |-> Idle]
    /\ faults = 0
    /\ documents = {}

HistoryNext ==
    \E p \in {"p1"} :
        \/ sendMessage(p)
        \/ sendMessageCheck(p)
        \/ sendMessagePutUser(p)
        \/ sendMessageContext(p)
        \/ sendMessageInvoke(p)
        \/ sendMessagePutAssistant(p)
        \/ sendMessageUpdateSession(p)
        \/ indexConversationUser(p)
        \/ indexConversationAssistant(p)

HistorySpec == HistoryInit /\ [][HistoryNext]_vars

\* ================================================================ analyzeText
\* AnalysisService.analyzeText over the table documents and the Bedrock
\* model, as invocations of its own.
DocumentIds == {"doc_001"}

\* The replies of the model to the analysis prompt, as texts.
ModelTexts ==
    {"I could not find any violation.", "null", "42", "{}",
     "{violations:[],summary:'none',riskScore:12,recommendations:[]}",
     "{violations:[v],summary:'severe',riskScore:150,recommendations:[r]}"}

\* A property of a parsed object is a set of zero or one values.
JsonObject(violations, summary, riskScore, recommendations) ==
    [type |-> "object",
     props |-> [violations |-> violations, summary |-> summary,
                riskScore |-> riskScore, recommendations |-> recommendations]]

JsonNull == [type |-> "null", props |-> <<>>]

JsonNumber == [JsonObject({}, {}, {}, {}) EXCEPT !.type = "number"]

\* JSON.parse: the value of a text, as a set of zero or one values; no value
\* stands for the SyntaxError.
JsonParse(text) ==
    IF text = "null" THEN {JsonNull}
    ELSE IF text = "42" THEN {JsonNumber}
    ELSE IF text = "{}" THEN {JsonObject({}, {}, {}, {})}
    ELSE IF text = "{violations:[],summary:'none',riskScore:12,recommendations:[]}"
    THEN {JsonObject({"[]"}, {"none"}, {12}, {"[]"})}
    ELSE IF text = "{violations:[v],summary:'severe',riskScore:150,recommendations:[r]}"
    THEN {JsonObject({"[v]"}, {"severe"}, {150}, {"[r]"})}
    ELSE {}

\* analyzeViolations that answers the empty analysis for a reply that is not
\* JSON.
analyzeViolations_Repairs(text) ==
    IF JsonParse(text) = {}
    THEN [value |-> {JsonObject({"[]"}, {""}, {0}, {"[]"})}, thrown |-> {}]
    ELSE [value |-> JsonParse(text), thrown |-> {}]

\* analyzeViolations on the reply of invokeChat: the parsed value, or the
\* parse failure rethrown as a plain Error.
analyzeViolations(text) ==
    IF JsonParse(text) = {}
    THEN [value |-> {}, thrown |-> {ParseError}]
    ELSE [value |-> JsonParse(text), thrown |-> {}]

\* AnalysisResponse that brings the risk score into its range 0..100.
AnalysisResponse_Clamped(analysisResult, processingTime) ==
    [violations |-> analysisResult.props.violations,
     summary |-> analysisResult.props.summary,
     riskScore |-> {IF x > 100 THEN 100 ELSE x : x \in analysisResult.props.riskScore},
     recommendations |-> analysisResult.props.recommendations,
     processingTime |-> processingTime]

\* The response analyzeText builds from the parsed value: its four
\* properties as they are, and the processing time.
AnalysisResponse(analysisResult, processingTime) ==
    [violations |-> analysisResult.props.violations,
     summary |-> analysisResult.props.summary,
     riskScore |-> analysisResult.props.riskScore,
     recommendations |-> analysisResult.props.recommendations,
     processingTime |-> processingTime]

AnalysisIdle ==
    [op |-> "none", pc |-> "idle", documentId |-> {}, startTime |-> 0,
     documentInfo |-> {}, contextFailed |-> FALSE, invocations |-> 0,
     content |-> {}, response |-> {}, storeFailed |-> FALSE,
     error |-> {}, returned |-> {}]

\* The documents the ingest side may have stored.
EarlierDocuments ==
    {{}, {[id |-> "doc_001", title |-> "Report", contentType |-> "text/plain",
           tags |-> <<"intake">>]}}

AnalysisInit ==
    /\ now = 0
    /\ chatSessions = {} /\ chatMessages = {} /\ chatContext = {}
    /\ documents \in EarlierDocuments
    /\ req = [p \in Procs |-> AnalysisIdle]
    /\ faults = 0


AnalysisEnded(r, errs) ==
    [r EXCEPT !.pc = "done", !.error = errs, !.response = {}]

\* analyzeText reads the clock and turns to the context of the analysis.
analyzeText(p) ==
    /\ CanStart(p)
    /\ \E documentId \in {{}} \cup {{d} : d \in DocumentIds}, t \in 0..MaxTime :
          /\ ReadClock(t)
          /\ req' = [req EXCEPT ![p] =
                [AnalysisIdle EXCEPT
                    !.op = "analyzeText", !.documentId = documentId,
                    !.startTime = t,
                    !.pc = IF documentId = {} THEN "invoke" ELSE "context"]]
    /\ UNCHANGED <<chatSessions, chatMessages, chatContext, faults, documents>>

\* buildAnalysisContext: the title, content type and tags of the document,
\* when it is found; a failing read is logged and leaves the context empty.
buildAnalysisContext(p) ==
    /\ req[p].op = "analyzeText" /\ req[p].pc = "context"
    /\ \/ /\ Answers
          /\ req' = [req EXCEPT ![p].pc = "invoke",
                ![p].documentInfo =
                    {[title |-> d.title, contentType |-> d.contentType,
                      tags |-> d.tags] :
                        d \in {x \in get(documents, TheOne(req[p].documentId)) :
                                  "title" \in DOMAIN x}}]
       \/ /\ Throws
          /\ req' = [req EXCEPT ![p].pc = "invoke", ![p].contextFailed = TRUE]
    /\ UNCHANGED <<now, chatSessions, chatMessages, chatContext, documents>>

\* analyzeViolations and the lines after it, up to the write of the result:
\* invokeChat once, the reply parsed, the processing time read off the clock
\* and the response built from the parsed value.
analyzeTextInvoke(p) ==
    /\ req[p].op = "analyzeText" /\ req[p].pc = "invoke"
    /\ \/ /\ Throws
          /\ req' = [req EXCEPT ![p] =
                AnalysisEnded([req[p] EXCEPT !.invocations = @ + 1],
                              {BedrockChatError})]
          /\ UNCHANGED now
       \/ /\ Answers
          /\ \E text \in ModelTexts :
                LET parsed == analyzeViolations(text)
                    r == [req[p] EXCEPT !.invocations = @ + 1, !.content = {text}]
                IN  IF parsed.thrown # {}
                    THEN /\ req' = [req EXCEPT ![p] = AnalysisEnded(r, parsed.thrown)]
                         /\ UNCHANGED now
                    ELSE \E t \in 0..MaxTime :
                         /\ ReadClock(t)
                         /\ LET analysisResult == TheOne(parsed.value)
                                response == AnalysisResponse(analysisResult,
                                                             t - req[p].startTime)
                            IN  IF analysisResult.type = "null"
                                THEN req' = [req EXCEPT ![p] =
                                                AnalysisEnded(r, {TypeError})]
                                ELSE IF req[p].documentId # {}
                                THEN req' = [req EXCEPT ![p] =
                                        [r EXCEPT !.pc = "store",
                                                  !.response = {response}]]
                                ELSE req' = [req EXCEPT ![p] =
                                        [r EXCEPT !.pc = "done",
                                                  !.returned = {response}]]
    /\ UNCHANGED <<chatSessions, chatMessages, chatContext, documents>>

\* storeAnalysisResult that lets the failure of the write fail the analysis.
storeAnalysisResult_Rethrows(p) ==
    /\ req[p].op = "analyzeText" /\ req[p].pc = "store"
    /\ \/ /\ Answers
          /\ \E t \in 0..MaxTime :
                /\ ReadClock(t)
                /\ documents' = update(documents, TheOne(req[p].documentId),
                        [analysisResult |-> TheOne(req[p].response),
                         analysisTimestamp |-> t])
          /\ req' = [req EXCEPT ![p].pc = "done", ![p].returned = req[p].response,
                                ![p].response = {}]
       \/ /\ Throws
          /\ req' = [req EXCEPT ![p] =
                AnalysisEnded([req[p] EXCEPT !.storeFailed = TRUE],
                              {PlainError("update", "documents")})]
          /\ UNCHANGED <<now, documents>>
    /\ UNCHANGED <<chatSessions, chatMessages, chatContext>>

\* storeAnalysisResult, then the return of the response: the result and the
\* time of the write set on the document record; a failing write is logged.
storeAnalysisResult(p) ==
    /\ req[p].op = "analyzeText" /\ req[p].pc = "store"
    /\ \/ /\ Answers
          /\ \E t \in 0..MaxTime :
                /\ ReadClock(t)
                /\ documents' = update(documents, TheOne(req[p].documentId),
                        [analysisResult |-> TheOne(req[p].response),
                         analysisTimestamp |-> t])
          /\ req' = [req EXCEPT ![p].pc = "done", ![p].returned = req[p].response,
                                ![p].response = {}]
       \/ /\ Throws
          /\ req' = [req EXCEPT ![p].pc = "done", ![p].returned = req[p].response,
                                ![p].response = {}, ![p].storeFailed = TRUE]
          /\ UNCHANGED <<now, documents>>
    /\ UNCHANGED <<chatSessions, chatMessages, chatContext>>

AnalysisNext ==
    \E p \in Procs :
        \/ analyzeText(p)
        \/ buildAnalysisContext(p)
        \/ analyzeTextInvoke(p)
        \/ storeAnalysisResult(p)

AnalysisSpec == AnalysisInit /\ [][AnalysisNext]_vars

\* ================================================================ handlers
\* The Lambda handlers in front of the services.  A handler is modelled up to
\* its call of the service and from the return of that call; the call itself
\* is the service operation modelled above (ChatService) and below
\* (AnalysisService), of which the handler sees the value returned or the
\* error thrown.
MinMessageLength == 1       \* ChatRequestSchema: message min(1)
MaxMessageLength == 2000    \* ChatRequestSchema: message max(2000)
MinTextLength == 10         \* AnalysisRequestSchema: text min(10)
MaxTextLength == 50000      \* AnalysisRequestSchema: text max(50000)

Methods == {"GET", "POST", "DELETE", "PUT"}

\* The values a {sessionId} path segment may have: an identifier, and the
\* name of the sub-resource.
PathSessionIds == {"sess_A", "messages"}

\* event.path as its segments: /v1/chat, /v1/chat/{sessionId} and
\* /v1/chat/{sessionId}/messages.
ChatPaths ==
    {<<"v1", "chat">>}
    \cup {<<"v1", "chat", sid>> : sid \in PathSessionIds}
    \cup {<<"v1", "chat", sid, "messages">> : sid \in PathSessionIds}

\* event.body: absent, not JSON, or a JSON object whose message (chat) or
\* text (analysis) property is absent or a string of the given length.
Bodies(lengths) ==
    {[kind |-> "missing", length |-> {}], [kind |-> "notJson", length |-> {}],
     [kind |-> "json", length |-> {}]}
    \cup {[kind |-> "json", length |-> {n}] : n \in lengths}

MessageLengths ==
    {MinMessageLength - 1, MinMessageLength, MaxMessageLength, MaxMessageLength + 1}

TextLengths == {MinTextLength - 1, MinTextLength, MaxTextLength, MaxTextLength + 1}

\* The requests the chat handler may receive; userId is the authorizer's
\* userId, as a set of zero or one values.
ChatEvents ==
    [httpMethod : Methods, path : ChatPaths, userId : {{}, {"u1"}},
     body : Bodies(MessageLengths)]

AnalysisEvents ==
    [httpMethod : {"POST"}, path : {<<"v1", "analysis">>}, userId : {{}, {"u1"}},
     body : Bodies(TextLengths)]

\* event.pathParameters.sessionId: the segment API Gateway binds to
\* {sessionId}, as a set of zero or one values.
PathParameters(event) ==
    IF Len(event.path) >= 3 THEN {event.path[3]} ELSE {}

\* path.endsWith("/" + segment)
endsWith(path, segment) == Len(path) > 0 /\ path[Len(path)] = segment

\* path.includes("/" + segment + "/")
includes(path, segment) == \E i \in 1..(Len(path) - 1) : path[i] = segment

\* The ValidationError of the validation module: a plain Error subclass with
\* a field and a code, and no status.
ValidationFailure(message, field, code) ==
    [name |-> "ValidationError", message |-> <<message>>, field |-> field,
     code |-> code]

\* JSON.parse on a body that is not JSON, outside validateEventBody.
JsonSyntaxError == [name |-> "SyntaxError", message |-> <<"Unexpected token">>]

\* new Error(message), thrown or handed to createErrorResponse by a handler.
HandlerError(message) == [name |-> "Error", message |-> <<message>>]

\* validateEventBody against a schema that requires a string property of
\* min..max characters: the error thrown, as a set of zero or one errors.
validateEventBody(body, field, min, max) ==
    IF body.kind = "missing"
    THEN {ValidationFailure("Request body is required", "body", "MISSING_BODY")}
    ELSE IF body.kind = "notJson"
    THEN {ValidationFailure("Invalid JSON format", "body", "INVALID_JSON")}
    ELSE IF body.length = {}
    THEN {ValidationFailure("Required", field, "invalid_type")}
    ELSE IF TheOne(body.length) < min
    THEN {ValidationFailure("Too small", field, "too_small")}
    ELSE IF TheOne(body.length) > max
    THEN {ValidationFailure("Too big", field, "too_big")}
    ELSE {}

\* createErrorResponse: status, code, message and details of an AppError;
\* 500 INTERNAL_ERROR "Internal server error" for every other error.
createErrorResponse(error) ==
    IF error.name = "AppError"
    THEN [success |-> FALSE, statusCode |-> error.statusCode, code |-> error.code,
          message |-> error.message, details |-> error.details]
    ELSE [success |-> FALSE, statusCode |-> 500, code |-> "INTERNAL_ERROR",
          message |-> <<"Internal server error">>, details |-> <<>>]

\* createSuccessResponse(data, statusCode)
createSuccessResponse(statusCode) ==
    [success |-> TRUE, statusCode |-> statusCode, code |-> "", message |-> <<>>,
     details |-> <<>>]

\* What a handler function does with an event before any call of a
\* service: it returns a response, it throws, or it calls the service.
Responds(response) == [invoked |-> {}, thrown |-> {}, response |-> {response}]

Thrown(errors) == [invoked |-> {}, thrown |-> errors, response |-> {}]

Invokes(op, sessionId, userId) ==
    [invoked |-> {[op |-> op, sessionId |-> sessionId, userId |-> userId]},
     thrown |-> {}, response |-> {}]

\* The checks the handler functions share: the session id of the path, then
\* the userId of the authorizer.
WithSessionAndUser(event, op) ==
    IF PathParameters(event) = {} \/ PathParameters(event) = {""}
    THEN Responds(createErrorResponse(HandlerError("Session ID required")))
    ELSE IF event.userId = {}
    THEN Responds(createErrorResponse(HandlerError("User ID required")))
    ELSE Invokes(op, TheOne(PathParameters(event)), TheOne(event.userId))

handleCreateSession(event) ==
    IF event.userId = {}
    THEN Responds(createErrorResponse(HandlerError("User ID required")))
    ELSE IF event.body.kind = "notJson" THEN Thrown({JsonSyntaxError})
    ELSE Invokes("createSession", Undefined, TheOne(event.userId))

handleSendMessage(event) ==
    LET invalid == validateEventBody(event.body, "message",
                                     MinMessageLength, MaxMessageLength)
    IN  IF invalid # {} THEN Thrown(invalid)
        ELSE WithSessionAndUser(event, "sendMessage")

handleGetMessages(event) == WithSessionAndUser(event, "getMessages")

handleGetSession(event) == WithSessionAndUser(event, "getSession")

handleGetSessions(event) ==
    IF event.userId = {}
    THEN Responds(createErrorResponse(HandlerError("User ID required")))
    ELSE Invokes("getUserSessions", Undefined, TheOne(event.userId))

handleDeleteSession(event) == WithSessionAndUser(event, "deleteSession")

RouteNotFound == Responds(createErrorResponse(HandlerError("Route not found")))

\* The switch of the chat handler on event.httpMethod and event.path.
handler(event) ==
    LET path == event.path
    IN  IF event.httpMethod = "POST"
        THEN IF endsWith(path, "chat") THEN handleCreateSession(event)
             ELSE IF includes(path, "chat") /\ endsWith(path, "messages")
             THEN handleSendMessage(event)
             ELSE RouteNotFound
        ELSE IF event.httpMethod = "GET"
        THEN IF includes(path, "chat") /\ endsWith(path, "messages")
             THEN handleGetMessages(event)
             ELSE IF includes(path, "chat") THEN handleGetSession(event)
             ELSE IF endsWith(path, "chat") THEN handleGetSessions(event)
             ELSE RouteNotFound
        ELSE IF event.httpMethod = "DELETE"
        THEN IF includes(path, "chat") THEN handleDeleteSession(event)
             ELSE RouteNotFound
        ELSE Responds(createErrorResponse(HandlerError("Method not allowed")))

\* The analysis handler: validate the body, then analyzeText.
analysisHandlerBody(event) ==
    LET invalid == validateEventBody(event.body, "text", MinTextLength, MaxTextLength)
    IN  IF invalid # {} THEN Thrown(invalid)
        ELSE [invoked |-> {[op |-> "analyzeText", sessionId |-> Undefined,
                            userId |-> Undefined]},
              thrown |-> {}, response |-> {}]

\* The errors a call of a service may throw to its handler.
ServiceErrors(call) ==
    LET lookup == {NotFoundError("Chat session", call.sessionId), ForbiddenSession,
                   PlainError("get item from", "chat-sessions")}
    IN  IF call.op = "createSession" THEN {PlainError("put item in", "chat-sessions")}
        ELSE IF call.op = "getUserSessions" THEN {PlainError("query", "chat-sessions")}
        ELSE IF call.op = "getSession" THEN lookup
        ELSE IF call.op = "deleteSession"
        THEN lookup \cup {PlainError("update item in", "chat-sessions")}
        ELSE IF call.op = "getMessages"
        THEN lookup \cup {PlainError("query", "chat-messages")}
        ELSE IF call.op = "sendMessage"
        THEN lookup \cup {InvalidSession, PlainError("put item in", "chat-messages"),
                          PlainError("query", "chat-messages"), BedrockChatError,
                          PlainError("update item in", "chat-sessions")}
        ELSE {BedrockChatError, ParseError, TypeError}

\* The status a handler function gives createSuccessResponse.
SuccessStatus(op) ==
    IF op = "createSession" THEN 201 ELSE IF op = "deleteSession" THEN 204 ELSE 200

HandlerIdle ==
    [op |-> "none", pc |-> "idle", event |-> {}, invoked |-> {}, response |-> {}]

HandlerInit ==
    /\ now = 0
    /\ chatSessions = {} /\ chatMessages = {} /\ chatContext = {} /\ documents = {}
    /\ req = [p \in Procs |-> HandlerIdle]
    /\ faults = 0

\* withErrorHandling around a handler, up to the call of the service: the
\* response is the one the handler returns or the createErrorResponse of what
\* it throws.
Receives(p, name, event, out) ==
    req' = [req EXCEPT ![p] =
              [op |-> name, pc |-> IF out.invoked = {} THEN "done" ELSE "inService",
               event |-> {event}, invoked |-> out.invoked,
               response |-> IF out.thrown # {}
                            THEN {createErrorResponse(TheOne(out.thrown))}
                            ELSE out.response]]

chatHandlerReceives(p) ==
    /\ CanStart(p)
    /\ \E event \in ChatEvents : Receives(p, "chatHandler", event, handler(event))
    /\ UNCHANGED <<now, chatSessions, chatMessages, chatContext, faults, documents>>

analysisHandlerReceives(p) ==
    /\ CanStart(p)
    /\ \E event \in AnalysisEvents :
         Receives(p, "analysisHandler", event, analysisHandlerBody(event))
    /\ UNCHANGED <<now, chatSessions, chatMessages, chatContext, faults, documents>>

\* The call of the service returns, and the handler answers with
\* createSuccessResponse; or it throws, and withErrorHandling answers with
\* createErrorResponse.
handlerReturns(p) ==
    /\ req[p].pc = "inService"
    /\ LET call == TheOne(req[p].invoked)
       IN  \/ req' = [req EXCEPT ![p].pc = "done",
                 ![p].response = {createSuccessResponse(SuccessStatus(call.op))}]
           \/ \E e \in ServiceErrors(call) :
                req' = [req EXCEPT ![p].pc = "done",
                                   ![p].response = {createErrorResponse(e)}]
    /\ UNCHANGED <<now, chatSessions, chatMessages, chatContext, faults, documents>>

HandlerNext ==
    \/ \E p \in Procs : chatHandlerReceives(p)
    \/ \E p \in Procs : analysisHandlerReceives(p)
    \/ \E p \in Procs : handlerReturns(p)

HandlerSpec == HandlerInit /\ [][HandlerNext]_vars

\* ================================================================ properties
\* Request p takes the step.
Steps(p) == req'[p] # req[p]

\* The session a request looked up belongs to its caller.
OwnsLookedUp(p) ==
    req[p].session # {} /\ TheOne(req[p].session).userId = req[p].userId

UserMessages(sessionId) ==
    {m \in chatMessages : m.sessionId = sessionId /\ m.role = "user"}

\* C1: the step of sendMessage that stores the user message raises the number
\* of stored user-role messages of the session by exactly 1.
C1_UserMessageCountGrowsByOne ==
    [][\A p \in Procs :
         (req[p].op = "sendMessage" /\ req[p].pc = "putUser"
            /\ req'[p].pc = "getHistory")
         => Cardinality(UserMessages(req[p].sessionId)')
              = Cardinality(UserMessages(req[p].sessionId)) + 1]_vars

\* C2: a sendMessage that looked up a session of its caller whose isActive is
\* false ends at its next step with the invalid-session error, and that step
\* writes no message and leaves the session as it is.
C2_InactiveSessionRejected ==
    [][\A p \in Procs :
         (req[p].op = "sendMessage" /\ req[p].pc = "gotSession" /\ Steps(p)
            /\ OwnsLookedUp(p) /\ ~TheOne(req[p].session).isActive)
         => /\ req'[p].pc = "done"
            /\ req'[p].error = {InvalidSession}
            /\ req'[p].returned = {}
            /\ chatMessages' = chatMessages
            /\ chatSessions' = chatSessions]_vars

\* C2 witness: a sendMessage on an inactive session of its caller has ended.
C2_Witness ==
    \E p \in Procs :
        /\ req[p].op = "sendMessage" /\ req[p].pc = "done"
        /\ OwnsLookedUp(p) /\ ~TheOne(req[p].session).isActive
        /\ req[p].error = {InvalidSession}

\* The elements of a sequence.
Range(seq) == {seq[i] : i \in 1..Len(seq)}

\* Request p is a sendMessage past its precondition checks.
Sending(p) ==
    req[p].op = "sendMessage" /\ req[p].pc \notin {"idle", "gotSession", "done"}

\* A complete reply: the reply text, the session, and a token usage that is
\* the sum of the input and output tokens of a model response.
CompleteReply(r, sessionId) ==
    /\ r.sessionId = sessionId
    /\ r.message \in Replies
    /\ \E b \in BedrockResponses :
         r.metadata.tokensUsed = b.usage.inputTokens + b.usage.outputTokens

\* C3 as stated: a sendMessage past its checks ends with a complete reply, or
\* with an error raised by the user-message write or by the model invocation.
C3_FailsOnlyAtWriteOrModel ==
    [][\A p \in Procs :
         (Sending(p) /\ req'[p].pc = "done")
         => \/ /\ req'[p].error = {}
               /\ \E r \in req'[p].returned : CompleteReply(r, req[p].sessionId)
            \/ /\ req'[p].error # {} /\ req'[p].returned = {}
               /\ req[p].pc \in {"putUser", "invoke"}]_vars

\* The error each mandatory step of sendMessage surfaces when its call throws.
MandatoryStepError(pc) ==
    IF pc \in {"putUser", "putAssistant"} THEN {PlainError("put item in", "chat-messages")}
    ELSE IF pc = "getHistory" THEN {PlainError("query", "chat-messages")}
    ELSE IF pc = "invoke" THEN {BedrockChatError}
    ELSE IF pc = "updateSession" THEN {PlainError("update item in", "chat-sessions")}
    ELSE {}

\* C3, amended: a sendMessage past its checks ends with a complete reply with
\* usage metadata, or with the error of the user-message write, the history
\* fetch, the model invocation, the assistant-message write or the updatedAt
\* update and no reply; a throw of retrieval or of indexing never ends it
\* with an error.
C3_FailsOnlyAtMandatorySteps ==
    [][\A p \in Procs :
         (Sending(p) /\ req'[p].pc = "done")
         => \/ /\ req'[p].error = {}
               /\ \E r \in req'[p].returned : CompleteReply(r, req[p].sessionId)
            \/ /\ req'[p].error # {} /\ req'[p].returned = {}
               /\ req'[p].error = MandatoryStepError(req[p].pc)
               /\ ~req'[p].indexFailed
               /\ req'[p].ragFailed = req[p].ragFailed]_vars

\* C3 witness: a sendMessage has failed with the error of its history fetch.
C3_Witness ==
    \E p \in Procs :
        /\ req[p].op = "sendMessage" /\ req[p].pc = "done"
        /\ req[p].error = {PlainError("query", "chat-messages")}
        /\ req[p].returned = {}

\* C4: when a call of the retrieval step throws, sendMessage goes on to the
\* model invocation with no hits; the assistant message it then builds and
\* writes has an empty sources list, the reply it returns has an empty sources
\* list, and an error can only come from a later mandatory step.
C4_RetrievalFailureIsNotFatal ==
    [][\A p \in Procs :
         (req[p].op = "sendMessage" /\ Steps(p) /\ req'[p].ragFailed)
         => /\ req[p].pc = "getHistory"
               => /\ req'[p].pc = "invoke" /\ req'[p].error = {}
                  /\ req'[p].searchResults = <<>>
            /\ req'[p].pc = "putAssistant"
               => /\ TheOne(req'[p].assistantMessage).metadata.sources = <<>>
                  /\ req'[p].sent = prepareMessagesForBedrock(req[p].history,
                                                              req[p].message, <<>>)
            /\ req'[p].pc = "updateSession"
               => /\ TheOne(req[p].assistantMessage) \in chatMessages'
                  /\ TheOne(req[p].assistantMessage).metadata.sources = <<>>
            /\ (req'[p].pc = "done" /\ req'[p].error = {})
               => \E r \in req'[p].returned : r.sources = <<>>
            /\ req'[p].error # {}
               => req[p].pc \in {"invoke", "putAssistant", "updateSession"}]_vars

\* C4 witness: a sendMessage whose retrieval threw has returned its reply.
C4_Witness ==
    \E p \in Procs :
        /\ req[p].op = "sendMessage" /\ req[p].pc = "done" /\ req[p].ragFailed
        /\ req[p].error = {}
        /\ \E r \in req[p].returned : r.sources = <<>>

\* C5: the step at which an embedding or index call of indexConversation
\* throws ends sendMessage with the reply and no error; it leaves the stored
\* messages as they are, and the session carries the updatedAt the call wrote.
C5_IndexingFailureIsSwallowed ==
    [][\A p \in Procs :
         (req[p].op = "sendMessage" /\ ~req[p].indexFailed /\ req'[p].indexFailed)
         => /\ req'[p].pc = "done" /\ req'[p].error = {}
            /\ req'[p].returned = {ChatResponse(p)}
            /\ chatMessages' = chatMessages
            /\ IF req[p].pc = "updateSession"
               THEN \A s \in chatSessions' :
                      s.id = req[p].sessionId
                      => s.updatedAt = TheOne(req[p].assistantMessage).timestamp
               ELSE chatSessions' = chatSessions]_vars

\* C5 witness: a sendMessage whose indexing threw has returned its reply.
C5_Witness ==
    \E p \in Procs :
        /\ req[p].op = "sendMessage" /\ req[p].pc = "done" /\ req[p].indexFailed
        /\ req[p].returned # {} /\ req[p].error = {}

\* The calls that check the ownership of a session.
OwnerCheckedOps == {"getSession", "getMessages", "deleteSession", "sendMessage"}

\* The strings an error carries.
Carried(err) == Range(err.message) \cup Range(err.details)

\* The step at which a call rejects caller userId for session s: it ends with
\* Forbidden (403) and no result, the error carries none of the id, owner and
\* title of s, and no session or message record changes.
RejectedAsForbidden(p, s) ==
    /\ req'[p].pc = "done"
    /\ req'[p].error = {ForbiddenSession}
    /\ \A e \in req'[p].error :
         e.statusCode = 403 /\ Carried(e) \cap {s.id, s.userId, s.title} = {}
    /\ req'[p].returned = {} /\ req'[p].items = <<>>
    /\ chatSessions' = chatSessions /\ chatMessages' = chatMessages

\* C6: for a session that is not the caller's, getSession, getMessages,
\* deleteSession and sendMessage end with Forbidden once the lookup has
\* answered, the error carries none of the session's fields, and neither the
\* lookup nor the rejection changes a session or message record.
C6_NonOwnerIsForbidden ==
    [][\A p \in Procs :
         /\ (req[p].pc = "idle" /\ req'[p].op \in OwnerCheckedOps)
            => chatSessions' = chatSessions /\ chatMessages' = chatMessages
         /\ (req[p].pc = "idle" /\ req'[p].op = "getSession" /\ faults' = faults)
            => \A s \in chatSessions :
                 (s.id = req'[p].sessionId /\ s.userId # req'[p].userId)
                 => RejectedAsForbidden(p, s)
         /\ (req[p].pc = "gotSession" /\ req[p].op \in OwnerCheckedOps /\ Steps(p))
            => \A s \in req[p].session :
                 s.userId # req[p].userId => RejectedAsForbidden(p, s)]_vars

\* C6 witness: a deleteSession on an active session of another user has been
\* rejected as Forbidden.
C6_Witness ==
    \E p \in Procs :
        /\ req[p].op = "deleteSession" /\ req[p].pc = "done"
        /\ req[p].error = {ForbiddenSession}
        /\ \E s \in req[p].session : s.userId # req[p].userId
        /\ \E s \in chatSessions : s.id = req[p].sessionId /\ s.isActive

\* C7: a deleteSession by the owner of a session that is already inactive
\* passes its checks, and when its update answers it ends without an error:
\* the record is still there and inactive, with the owner, the title and the
\* creation time it had.
C7_DeleteTwiceSucceeds ==
    [][\A p \in Procs :
         (req[p].op = "deleteSession" /\ Steps(p)
            /\ OwnsLookedUp(p) /\ ~TheOne(req[p].session).isActive)
         => /\ req[p].pc = "gotSession"
               => req'[p].pc = "updateSession" /\ req'[p].error = {}
            /\ (req[p].pc = "updateSession" /\ faults' = faults)
               => /\ req'[p].pc = "done" /\ req'[p].error = {}
                  /\ Cardinality(chatSessions') = Cardinality(chatSessions)
                  /\ \A s \in chatSessions :
                       s.id = req[p].sessionId
                       => \E s2 \in chatSessions' :
                            /\ s2.id = s.id /\ ~s2.isActive
                            /\ s2.userId = s.userId /\ s2.title = s.title
                            /\ s2.createdAt = s.createdAt]_vars

\* C7 witness: a deleteSession of an already inactive session has succeeded,
\* and the session is stored inactive.
C7_Witness ==
    \E p \in Procs :
        /\ req[p].op = "deleteSession" /\ req[p].pc = "done" /\ req[p].error = {}
        /\ OwnsLookedUp(p) /\ ~TheOne(req[p].session).isActive
        /\ \E s \in chatSessions : s.id = req[p].sessionId /\ ~s.isActive

\* C8 as stated: a stored session that is inactive stays stored and inactive
\* at every step.
C8_InactiveIsAbsorbing ==
    [][\A s \in chatSessions :
         ~s.isActive => \E s2 \in chatSessions' : s2.id = s.id /\ ~s2.isActive]_vars

\* C9: when the write of createSession lands, the call returns the session it
\* stored, with the userId and title of the request, createdAt = updatedAt and
\* isActive true; when the write throws, the call fails, returns nothing and
\* the table is as it was.
C9_CreateStoresWholeSession ==
    [][\A p \in Procs :
         (req[p].op = "createSession" /\ req[p].pc = "putSession" /\ Steps(p))
         => /\ req'[p].pc = "done"
            /\ IF req'[p].error = {}
               THEN \E s \in req'[p].returned :
                      /\ req'[p].returned = {s}
                      /\ s \in chatSessions'
                      /\ s.id = req[p].sessionId
                      /\ s.userId = req[p].userId /\ s.title = req[p].title
                      /\ s.createdAt = s.updatedAt /\ s.isActive
               ELSE /\ req'[p].returned = {}
                    /\ req'[p].error = {PlainError("put item in", "chat-sessions")}
                    /\ chatSessions' = chatSessions]_vars

\* C9 witness: a createSession has returned the session it stored.
C9_Witness ==
    \E p \in Procs :
        /\ req[p].op = "createSession" /\ req[p].pc = "done" /\ req[p].error = {}
        /\ \E s \in req[p].returned : s \in chatSessions /\ s.isActive

\* C10 as stated: a stored message is stored unchanged after every step.
C10_MessagesAreAppendOnly ==
    [][\A m \in chatMessages : m \in chatMessages']_vars

\* C11: a getMessages that passes its checks returns stored messages of the
\* session it was asked for and of no other, each timestamp strictly below
\* the next; with no page limit it returns all of them.
C11_MessagesInAscendingOrder ==
    [][\A p \in Procs :
         (req[p].op = "getMessages" /\ req[p].pc = "gotSession"
            /\ req'[p].pc = "done" /\ req'[p].error = {})
         => LET items == req'[p].items
            IN  /\ \A i \in 1..Len(items) :
                     items[i] \in chatMessages /\ items[i].sessionId = req[p].sessionId
                /\ \A i, j \in 1..Len(items) :
                     i < j => items[i].timestamp < items[j].timestamp
                /\ Range(items) = {m \in chatMessages : m.sessionId = req[p].sessionId}]_vars

\* C11 witness: a getMessages has returned two messages or more.
C11_Witness ==
    \E p \in Procs :
        /\ req[p].op = "getMessages" /\ req[p].pc = "done" /\ req[p].error = {}
        /\ Len(req[p].items) >= 2

\* Request p takes the step at which its put of a message answers.
PutsMessage(p) ==
    /\ req[p].op = "sendMessage"
    /\ \/ req[p].pc = "putUser" /\ req'[p].pc = "getHistory"
       \/ req[p].pc = "putAssistant" /\ req'[p].pc = "updateSession"

\* The message that put writes.
WrittenMessage(p) ==
    TheOne(IF req[p].pc = "putUser" THEN req[p].userMessage
                                    ELSE req[p].assistantMessage)

\* C12 as stated: a message is written with a timestamp strictly greater than
\* that of every message of its session stored before it.
C12_TimestampsIncrease ==
    [][\A p \in Procs :
         PutsMessage(p)
         => \A m \in chatMessages :
              m.sessionId = WrittenMessage(p).sessionId
              => m.timestamp < WrittenMessage(p).timestamp]_vars

\* C13 as stated: a session or message is written under an identifier that no
\* stored record of its kind holds.
C13_IdentifiersAreUnique ==
    [][\A p \in Procs :
         /\ (req[p].op = "createSession" /\ req[p].pc = "putSession"
               /\ req'[p].error = {})
            => \A s \in chatSessions : s.id # req[p].sessionId
         /\ PutsMessage(p)
            => \A m \in chatMessages : m.id # WrittenMessage(p).id]_vars

\* C14 as stated: getUserSessions returns sessions of the user it was asked
\* for only, each updatedAt at least that of the next.
C14_SessionsMostRecentFirst ==
    \A p \in Procs :
        (req[p].op = "getUserSessions" /\ req[p].pc = "done" /\ req[p].error = {})
        => LET items == req[p].items
           IN  /\ \A i \in 1..Len(items) : items[i].userId = req[p].userId
               /\ \A i, j \in 1..Len(items) :
                    i < j => items[i].updatedAt >= items[j].updatedAt

\* The route table of the API: the operation API Gateway declares for a
\* method on /v1/chat, /v1/chat/{sessionId} and /v1/chat/{sessionId}/messages.
RouteTable(event) ==
    LET depth == Len(event.path)
    IN  IF event.httpMethod = "POST" /\ depth = 2 THEN "createSession"
        ELSE IF event.httpMethod = "GET" /\ depth = 2 THEN "getUserSessions"
        ELSE IF event.httpMethod = "GET" /\ depth = 3 THEN "getSession"
        ELSE IF event.httpMethod = "DELETE" /\ depth = 3 THEN "deleteSession"
        ELSE IF event.httpMethod = "POST" /\ depth = 4 THEN "sendMessage"
        ELSE IF event.httpMethod = "GET" /\ depth = 4 THEN "getMessages"
        ELSE "none"

\* C15 as stated: a request on a route of the table that carries no userId is
\* answered 401 UNAUTHORIZED, and no operation of ChatService is called.
C15_MissingUserIsUnauthorized ==
    \A p \in Procs :
        req[p].op = "chatHandler"
        => \A e \in req[p].event :
             (RouteTable(e) # "none" /\ e.userId = {})
             => /\ req[p].invoked = {}
                /\ \E r \in req[p].response :
                     r.statusCode = 401 /\ r.code = "UNAUTHORIZED"

\* The body of the request does not pass validateEventBody.
InvalidBody(p, e) ==
    \/ /\ req[p].op = "chatHandler" /\ RouteTable(e) = "sendMessage"
       /\ validateEventBody(e.body, "message", MinMessageLength, MaxMessageLength) # {}
    \/ /\ req[p].op = "analysisHandler"
       /\ validateEventBody(e.body, "text", MinTextLength, MaxTextLength) # {}

\* C17 as stated: a send-message or analyze-text request whose body is
\* missing, not JSON or against the schema is answered 400 VALIDATION_ERROR,
\* and no operation of a service is called.
C17_InvalidBodyIsValidationError ==
    \A p \in Procs :
        \A e \in req[p].event :
            InvalidBody(p, e)
            => /\ req[p].invoked = {}
               /\ \E r \in req[p].response :
                    r.statusCode = 400 /\ r.code = "VALIDATION_ERROR"

\* C18 as stated: for a request on a route of the table, the operation the
\* chat handler calls is the one the table lists, whatever the sessionId.
C18_DispatchFollowsRouteTable ==
    \A p \in Procs :
        req[p].op = "chatHandler"
        => \A e \in req[p].event :
             RouteTable(e) # "none"
             => \A call \in req[p].invoked : call.op = RouteTable(e)

\* The codes of the 502 errors: BedrockError, OpenSearchError, DynamoDBError.
UpstreamCodes == {"BEDROCK_ERROR", "OPENSEARCH_ERROR", "DYNAMODB_ERROR"}

\* C16 as stated: when sendMessage fails with the error of a store call or of
\* the model invocation, the response is 502 with an upstream-service code
\* and the message of the failure.
C16_UpstreamFailureIsBadGateway ==
    \A p \in Procs :
        (req[p].op = "sendMessage" /\ req[p].pc = "done")
        => \A e \in req[p].error :
             e.name = "Error"
             => LET r == createErrorResponse(e)
                IN  /\ r.statusCode = 502
                    /\ r.code \in UpstreamCodes
                    /\ r.message = e.message

\* The step of p in which the model answered analyzeText with a text.
ModelAnswered(p) ==
    /\ req[p].op = "analyzeText" /\ req[p].pc = "invoke"
    /\ Steps(p) /\ req'[p].content # {}

\* After the step, analyzeText of p goes on without error with a response
\* whose four properties are those of the parsed value v.
CarriesOn(p, v) ==
    /\ req'[p].error = {}
    /\ \E r \in req'[p].response \cup req'[p].returned :
          /\ r.violations = v.props.violations
          /\ r.summary = v.props.summary
          /\ r.riskScore = v.props.riskScore
          /\ r.recommendations = v.props.recommendations
          /\ r.processingTime >= 0

\* The response built is the response returned, whether the write to the
\* document record succeeded or not.
ReturnsTheResponse(p) ==
    req[p].op = "analyzeText" /\ req[p].pc = "store" /\ Steps(p)
        => req'[p].pc = "done" /\ req'[p].error = {}
           /\ req'[p].returned = req[p].response

\* C19 as stated: for every reply of the model that parses as JSON,
\* analyzeText returns the parsed violations, summary, riskScore and
\* recommendations unchanged, with a processingTime >= 0.
C19_EveryParsedReplyIsReturned ==
    [][\A p \in Procs :
          /\ ModelAnswered(p) /\ JsonParse(TheOne(req'[p].content)) # {}
                => CarriesOn(p, TheOne(JsonParse(TheOne(req'[p].content))))
          /\ ReturnsTheResponse(p)]_vars

\* C19 amended: for every reply of the model that parses to a JSON value
\* other than null, analyzeText returns the parsed violations, summary,
\* riskScore and recommendations unchanged (an absent property stays absent,
\* a riskScore outside 0..100 stays as it is), with a processingTime >= 0;
\* for the reply null the call fails with a TypeError and returns nothing.
C19_ParsedReplyIsReturnedUnlessNull ==
    [][\A p \in Procs :
          /\ ModelAnswered(p) /\ JsonParse(TheOne(req'[p].content)) # {}
                => LET v == TheOne(JsonParse(TheOne(req'[p].content)))
                   IN  IF v.type = "null"
                       THEN /\ req'[p].pc = "done"
                            /\ req'[p].error = {TypeError}
                            /\ req'[p].returned = {}
                       ELSE CarriesOn(p, v)
          /\ ReturnsTheResponse(p)]_vars

\* An analysis of a document returned a risk score of 150 as the model gave it.
C19_Witness ==
    \E p \in Procs :
        /\ req[p].op = "analyzeText" /\ req[p].pc = "done"
        /\ req[p].documentId # {} /\ req[p].error = {}
        /\ \E r \in req[p].returned : r.riskScore = {150} /\ r.processingTime >= 0

\* C20: when the reply of the model is not valid JSON, analyzeText fails with
\* the parse error of analyzeViolations, after a single invocation of the
\* model, returns nothing and writes no analysis result to the document
\* record.
C20_UnparseableReplyFailsTheCall ==
    [][\A p \in Procs :
          ModelAnswered(p) /\ JsonParse(TheOne(req'[p].content)) = {}
              => /\ req'[p].pc = "done"
                 /\ req'[p].error = {ParseError}
                 /\ req'[p].returned = {} /\ req'[p].response = {}
                 /\ req'[p].invocations = 1
                 /\ documents' = documents]_vars

\* An analysis of a document failed on a reply that is not JSON.
C20_Witness ==
    \E p \in Procs :
        /\ req[p].op = "analyzeText" /\ req[p].pc = "done"
        /\ req[p].documentId # {}
        /\ req[p].content = {"I could not find any violation."}
        /\ req[p].error = {ParseError}

\* The step of p that looks the document up for the context of the analysis.
LooksUpDocument(p) ==
    req[p].op = "analyzeText" /\ req[p].pc = "context" /\ Steps(p)

\* The step of p that writes the result back onto the document record.
WritesBack(p) ==
    req[p].op = "analyzeText" /\ req[p].pc = "store" /\ Steps(p)

\* Whatever the lookup and the write-back do, the analysis goes on and the
\* response built is returned; the table documents changes only in the
\* write-back of a call that was given a documentId.
BestEffortSteps ==
    /\ \A p \in Procs :
          /\ LooksUpDocument(p) => req'[p].pc = "invoke" /\ req'[p].error = {}
          /\ WritesBack(p) => /\ req'[p].pc = "done" /\ req'[p].error = {}
                              /\ req'[p].returned = req[p].response
                              /\ req'[p].returned # {}
    /\ documents' # documents
          => \E p \in Procs : WritesBack(p) /\ req[p].documentId # {}

\* C21 as stated: a failure of the document lookup or of the write-back never
\* fails the analysis, the document record is written only when a documentId
\* was supplied, and whenever the model call and the parse succeed the caller
\* receives the analysis result.
C21_ParsedReplyAlwaysReachesCaller ==
    [][/\ BestEffortSteps
       /\ \A p \in Procs :
             ModelAnswered(p) /\ JsonParse(TheOne(req'[p].content)) # {}
                 => /\ req'[p].error = {}
                    /\ req'[p].response \cup req'[p].returned # {}]_vars

\* C21 amended: a failure of the document lookup or of the write-back never
\* fails the analysis, the document record is written only when a documentId
\* was supplied, and whenever the model call succeeds and the reply parses to
\* a value other than null the caller receives the analysis result.
C21_BestEffortStepsNeverFail ==
    [][/\ BestEffortSteps
       /\ \A p \in Procs :
             ModelAnswered(p)
             /\ JsonParse(TheOne(req'[p].content)) \notin {{}, {JsonNull}}
                 => /\ req'[p].error = {}
                    /\ req'[p].response \cup req'[p].returned # {}]_vars

\* An analysis returned its result although the write-back failed.
C21_Witness ==
    \E p \in Procs :
        /\ req[p].op = "analyzeText" /\ req[p].pc = "done"
        /\ req[p].documentId # {} /\ req[p].storeFailed
        /\ req[p].error = {} /\ req[p].returned # {}

\* The messages stored for the session, oldest first.
StoredOrder(sessionId) ==
    SortAscending({m \in chatMessages : m.sessionId = sessionId})

\* C22: the conversation history sendMessage uses is the 10 most recent
\* stored messages of the session, whatever the number of stored messages.
C22_HistoryIsTenMostRecent ==
    \A p \in Procs :
        req[p].op = "sendMessage" /\ req[p].pc = "invoke"
            => req[p].history = Last(StoredOrder(req[p].sessionId), HistoryLimit)

\* The step of p in which the model answers the list of messages sent to it.
ModelReplies(p) ==
    req[p].op = "sendMessage" /\ req[p].pc = "invoke" /\ req'[p].pc = "putAssistant"

\* C23: the list sent to the model is the context turn and its
\* acknowledgment exactly when retrieval gave at least one hit, then the last
\* 8 messages of the history in stored order, then the new user message; it
\* never holds more than 11 entries.
C23_ListSentToModel ==
    [][\A p \in Procs : ModelReplies(p) =>
          LET history == req[p].history
              sent == req'[p].sent
              turns == IF Len(req[p].searchResults) > 0 THEN 2 ELSE 0
              kept == IF Len(history) > RecentHistory THEN RecentHistory
                      ELSE Len(history)
          IN  /\ Len(sent) = turns + kept + 1
              /\ Len(sent) <= 11
              /\ turns = 2 =>
                    /\ sent[1] = [role |-> "user",
                                  content |-> <<"Context information:",
                                                req[p].searchResults>>]
                    /\ sent[2] = [role |-> "assistant", content |-> <<"I understand.">>]
              /\ \A i \in 1..kept :
                    LET m == history[Len(history) - kept + i]
                    IN  sent[turns + i] = [role |-> m.role, content |-> m.content]
              /\ sent[Len(sent)] = [role |-> "user", content |-> req[p].message]]_vars

\* The model was sent 11 messages: the two context turns, 8 of the 10
\* messages of the history and the new message.
C23_Witness ==
    \E p \in Procs :
        /\ req[p].op = "sendMessage" /\ req[p].pc = "putAssistant"
        /\ Len(req[p].searchResults) > 0
        /\ Len(req[p].sent) = 11

\* The steps of sendMessage after the lookup of the session, in the order of
\* the code; the history fetch and the retrieval are the step "getHistory".
SendMessageOrder ==
    <<"gotSession", "putUser", "getHistory", "invoke", "putAssistant",
      "updateSession", "indexUser", "indexAssistant">>

Position(pc) == CHOOSE i \in 1..Len(SendMessageOrder) : SendMessageOrder[i] = pc

\* C24: within one sendMessage call the side effects happen one after the
\* other in the order user-message write, history fetch and retrieval, model
\* invocation, assistant-message write, update of the session's updatedAt to
\* the timestamp of the assistant message, conversation indexing; a step
\* starts only when the one before it has completed.
C24_SideEffectsInOrder ==
    [][\A p \in Procs : req[p].op = "sendMessage" /\ Steps(p) =>
          LET pc == req[p].pc
          IN  /\ req'[p].pc = "done"
                 \/ req'[p].pc = SendMessageOrder[Position(pc) + 1]
              /\ chatMessages' # chatMessages =>
                    \/ /\ pc = "putUser"
                       /\ chatMessages' = put("chat-messages", chatMessages,
                                              TheOne(req[p].userMessage))
                    \/ /\ pc = "putAssistant"
                       /\ chatMessages' = put("chat-messages", chatMessages,
                                              TheOne(req[p].assistantMessage))
              /\ chatSessions' # chatSessions =>
                    /\ pc = "updateSession"
                    /\ chatSessions' =
                          update(chatSessions, req[p].sessionId,
                                 [updatedAt |-> TheOne(req[p].assistantMessage).timestamp])
              /\ chatContext' # chatContext =>
                    \/ /\ pc = "indexUser"
                       /\ chatContext' = indexDocument(chatContext,
                                                       TheOne(req[p].userMessage))
                    \/ /\ pc = "indexAssistant"
                       /\ chatContext' = indexDocument(chatContext,
                                                       TheOne(req[p].assistantMessage))
              /\ req'[p].pc = "putAssistant" =>
                    /\ pc = "invoke"
                    /\ req'[p].sent = prepareMessagesForBedrock(
                           req[p].history, req[p].message, req[p].searchResults)]_vars

\* A sendMessage call went through all its steps: both messages are stored
\* and indexed, the session carries the timestamp of the assistant message.
C24_Witness ==
    \E p \in Procs :
        /\ req[p].op = "sendMessage" /\ req[p].pc = "done" /\ req[p].returned # {}
        /\ \E u, a \in chatMessages :
              /\ u.sessionId = req[p].sessionId /\ a.sessionId = req[p].sessionId
              /\ u.role = "user" /\ a.role = "assistant"
              /\ u.timestamp < a.timestamp
              /\ {u, a} \subseteq chatContext
              /\ \E s \in getChatSession(req[p].sessionId) : s.updatedAt = a.timestamp

\* C25 as stated: no message is written to a session at a moment when the
\* stored isActive of the session is false.
C25_NoWriteToInactiveSession ==
    [][\A p \in Procs :
          PutsMessage(p)
              => \A s \in getChatSession(WrittenMessage(p).sessionId) : s.isActive]_vars

\* The step of p that writes the session record in sendMessage or
\* deleteSession, when the requests are of these two kinds only.
UpdatesSession(p) ==
    /\ \A q \in Procs : req[q].op \in {"none", "sendMessage", "deleteSession"}
    /\ req[p].op \in {"sendMessage", "deleteSession"}
    /\ req[p].pc = "updateSession" /\ Steps(p)

\* C26 as stated: every write of sendMessage or deleteSession to a session
\* stores an updatedAt greater than or equal to the one it replaces.
C26_UpdatedAtNeverDecreases ==
    [][\A p \in Procs :
          UpdatesSession(p)
              => \A old \in chatSessions, new \in chatSessions' :
                    old.id = new.id => new.updatedAt >= old.updatedAt]_vars

\* C27 as stated: the history that goes into the list sent to the model never
\* holds the user message the same call has just stored, and the new user
\* message is the final element of the list.
C27_NewMessageSentOnce ==
    [][\A p \in Procs : ModelReplies(p) =>
          /\ \A i \in 1..Len(req[p].history) :
                req[p].history[i] # TheOne(req[p].userMessage)
          /\ req'[p].sent[Len(req'[p].sent)]
                = [role |-> "user", content |-> req[p].message]]_vars

\* C28 as stated: a request whose method and path are not a row of the route
\* table is answered with an error, and the chat handler calls no operation
\* of ChatService for it, so that no session or message record changes.
C28_UnlistedRouteChangesNothing ==
    \A p \in Procs :
        req[p].op = "chatHandler"
        => \A e \in req[p].event :
             RouteTable(e) = "none"
             => /\ req[p].invoked = {}
                /\ \A r \in req[p].response : ~r.success

\* The step of p in which invokeChat throws.
ModelFails(p) ==
    /\ req[p].op = "sendMessage" /\ req[p].pc = "invoke"
    /\ Steps(p) /\ faults' # faults

\* C29: when the invocation of the model fails, sendMessage ends there with
\* the error of the model: it stores no assistant message, leaves the session
\* and its updatedAt as they are and adds nothing to the chat-context index;
\* the user message stays stored.
C29_ModelFailureLeavesOnlyUserMessage ==
    [][\A p \in Procs : ModelFails(p) =>
          /\ req'[p].pc = "done"
          /\ req'[p].error = {BedrockChatError}
          /\ req'[p].returned = {} /\ req'[p].assistantMessage = {}
          /\ chatMessages' = chatMessages
          /\ chatSessions' = chatSessions
          /\ chatContext' = chatContext]_vars

\* A sendMessage call ended on the failure of the model with the session as
\* it was, its user message stored and no assistant message in the session.
C29_Witness ==
    \E p \in Procs :
        /\ req[p].op = "sendMessage" /\ req[p].pc = "done"
        /\ req[p].error = {BedrockChatError}
        /\ chatContext = {}
        /\ \E m \in chatMessages :
              m.sessionId = req[p].sessionId /\ m.role = "user"
        /\ \A m \in chatMessages :
              m.sessionId = req[p].sessionId => m.role = "user"
        /\ \E s \in getChatSession(req[p].sessionId) : s.updatedAt = 0

\* The step of p in which its sendMessage call returns or throws.
SendMessageEnds(p) ==
    req[p].op = "sendMessage" /\ req[p].pc # "done" /\ req'[p].pc = "done"

\* C30 as stated: when a sendMessage call ends on a call that failed, the
\* chat-context index holds both the user message and the assistant message
\* of the exchange, or neither of them.
C30_IndexingIsAllOrNothing ==
    [][\A p \in Procs : SendMessageEnds(p) /\ faults' # faults =>
          \A u \in req[p].userMessage :
              IF req[p].assistantMessage = {}
              THEN u \notin chatContext'
              ELSE u \in chatContext'
                     <=> TheOne(req[p].assistantMessage) \in chatContext']_vars
====
